---- MODULE Spec2Model ----
(***************************************************************************)
(* A model of two parts of trailbase's core crate:                         *)
(*   - auth/oauth/providers/apple.rs: the Apple OAuth provider, its         *)
(*     construction from a configuration and its OAuthProvider operations;  *)
(*   - admin/sql_value.rs: the conversions between the database Value and   *)
(*     the JSON-serializable SqlValue, with its hex and base64 blob codecs. *)
(* Strings that the code takes apart (URLs, hex and base64 text) are        *)
(* sequences of one-character strings; strings the code only moves around  *)
(* (client id, client secret, tokens) are atomic.                          *)
(***************************************************************************)
EXTENDS Integers, Sequences, FiniteSets

VARIABLES
  registry,     \* the provider instances built so far, in construction order
  statics,      \* the lazy_static cells of settings(): AUTH_URL and TOKEN_URL
  ret,          \* what the latest synchronous provider call returned
  settingsLog,  \* per instance, what settings() returned first and on later calls
  calls,        \* the get_user futures: idle, pending or done
  sql,          \* the SqlValue at hand (received from a client or produced from a Value)
  src,          \* the Value at hand, if the SqlValue is to be produced from one
  sqlRef,       \* the SqlValue produced from a borrow of the Value at hand
  val           \* the result of converting the SqlValue at hand to a Value

providerVars == << registry, statics, ret, settingsLog, calls >>
codecVars == << sql, src, sqlRef, val >>
vars == << registry, statics, ret, settingsLog, calls, sql, src, sqlRef, val >>

----------------------------------------------------------------------------
(* Bounds of the model. *)

MaxProviders == 2    \* provider instances constructed in one run
NumCalls == 2        \* get_user futures alive at the same time
MaxChars == 3        \* characters of a client-supplied hex string
MaxB64Chars == 4     \* characters of a client-supplied base64 string
MaxBlobLen == 3      \* bytes of a database blob

----------------------------------------------------------------------------
(* Option and Result. *)

None == [some |-> FALSE]
Some(x) == [some |-> TRUE, v |-> x]

Ok(x) == [ok |-> TRUE, v |-> x]
Err(e) == [ok |-> FALSE, e |-> e]
\* A panic (an .expect() on an Err, a slice off a character boundary) unwinds
\* the call: it returns neither Ok nor Err.
Panicked == [panic |-> TRUE]

IsOk(r) == "ok" \in DOMAIN r /\ r.ok
IsErr(r) == "ok" \in DOMAIN r /\ ~r.ok
IsPanic(r) == "panic" \in DOMAIN r

----------------------------------------------------------------------------
(* apple.rs: constants. *)

NAME == "apple"
DISPLAY_NAME == "Apple"

AUTH_URL ==
  << "h", "t", "t", "p", "s", ":", "/", "/", "a", "p", "p", "l", "e", "i", "d",
     ".", "a", "p", "p", "l", "e", ".", "c", "o", "m", "/", "a", "u", "t", "h",
     "/", "a", "u", "t", "h", "o", "r", "i", "z", "e" >>

TOKEN_URL ==
  << "h", "t", "t", "p", "s", ":", "/", "/", "a", "p", "p", "l", "e", "i", "d",
     ".", "a", "p", "p", "l", "e", ".", "c", "o", "m", "/", "a", "u", "t", "h",
     "/", "t", "o", "k", "e", "n" >>

\* OAuthProviderId::Apple
Apple == "Apple"

\* AuthError::Unauthorized, the only AuthError this file produces.
Unauthorized == "Unauthorized"

\* OAuthProviderError::Missing(String); the message is kept word by word.
Missing(words) == [kind |-> "Missing", msg |-> words]

----------------------------------------------------------------------------
(* Url::parse and Url's serialization, as far as settings() uses them:     *)
(* an absolute URL is scheme "://" host path; the scheme and the host are   *)
(* lower-cased and an empty path becomes "/".                               *)

UpperChars ==
  << "A", "B", "C", "D", "E", "F", "G", "H", "I", "J", "K", "L", "M", "N", "O",
     "P", "Q", "R", "S", "T", "U", "V", "W", "X", "Y", "Z" >>

LowerChars ==
  << "a", "b", "c", "d", "e", "f", "g", "h", "i", "j", "k", "l", "m", "n", "o",
     "p", "q", "r", "s", "t", "u", "v", "w", "x", "y", "z" >>

IndexOf(seq, c) ==
  IF \E i \in DOMAIN seq : seq[i] = c
  THEN CHOOSE i \in DOMAIN seq : seq[i] = c /\ \A j \in 1..(i - 1) : seq[j] # c
  ELSE 0

ToLower(c) == IF IndexOf(UpperChars, c) # 0 THEN LowerChars[IndexOf(UpperChars, c)] ELSE c

LowerAll(s) == [i \in DOMAIN s |-> ToLower(s[i])]

IsAlpha(c) == IndexOf(UpperChars, c) # 0 \/ IndexOf(LowerChars, c) # 0

UrlParse(s) ==
  LET colon == IndexOf(s, ":")
      scheme == SubSeq(s, 1, colon - 1)
      rest == SubSeq(s, colon + 3, Len(s))
      slash == IndexOf(rest, "/")
      host == IF slash = 0 THEN rest ELSE SubSeq(rest, 1, slash - 1)
      path == IF slash = 0 THEN << "/" >> ELSE SubSeq(rest, slash, Len(rest))
  IN  IF colon < 2 \/ ~IsAlpha(s[1]) THEN Err("RelativeUrlWithoutBase")
      ELSE IF Len(s) < colon + 2 \/ s[colon + 1] # "/" \/ s[colon + 2] # "/"
        THEN Err("RelativeUrlWithoutBase")
      ELSE IF host = << >> THEN Err("EmptyHost")
      ELSE Ok([scheme |-> LowerAll(scheme), host |-> LowerAll(host), path |-> path])

UrlAsStr(u) == u.scheme \o << ":", "/", "/" >> \o u.host \o u.path

IsAbsoluteUrl(u) == u.scheme # << >> /\ u.host # << >>

----------------------------------------------------------------------------
(* apple.rs: AppleOAuthProvider. *)

\* A misreading of the two let-else blocks: the secret checked first.
new_SecretFirst(config) ==
  IF ~config.client_secret.some
    THEN Err(Missing(<< "Apple", "client", "secret" >>))
  ELSE IF ~config.client_id.some
    THEN Err(Missing(<< "Apple", "client", "id" >>))
  ELSE Ok([client_id |-> config.client_id.v, client_secret |-> config.client_secret.v])

\* An error message that quotes the offending configuration.
new_LeaksConfig(config) ==
  IF ~config.client_id.some
    THEN Err(Missing(<< "Apple", "client", "id",
                        IF config.client_secret.some THEN config.client_secret.v ELSE "-" >>))
  ELSE IF ~config.client_secret.some
    THEN Err(Missing(<< "Apple", "client", "secret", config.client_id.v >>))
  ELSE Ok([client_id |-> config.client_id.v, client_secret |-> config.client_secret.v])

new(config) ==
  IF ~config.client_id.some
    THEN Err(Missing(<< "Apple", "client", "id" >>))
  ELSE IF ~config.client_secret.some
    THEN Err(Missing(<< "Apple", "client", "secret" >>))
  ELSE Ok([client_id |-> config.client_id.v, client_secret |-> config.client_secret.v])

\* The closure of the factory entry: |_name, config| Ok(Box::new(Self::new(config)?)).
factory_closure(_name, config) ==
  LET r == new(config) IN IF IsOk(r) THEN Ok(r.v) ELSE Err(r.e)

factory ==
  [id |-> Apple, factory_name |-> NAME, factory_display_name |-> DISPLAY_NAME]

name(self) == NAME
provider(self) == Apple
display_name(self) == DISPLAY_NAME

\* Dereferencing a lazy_static cell: the first access parses and stores, later
\* ones read; .expect("infallible") panics on a parse error.
LazyForce(cell, text) ==
  IF cell.init THEN cell
  ELSE LET p == UrlParse(text)
       IN  IF IsOk(p) THEN [init |-> TRUE, url |-> p.v] ELSE [init |-> FALSE, poisoned |-> TRUE]

Uninit == [init |-> FALSE]

\* The client id and the client secret swapped in the returned bundle.
settings_Swapped(self, st) ==
  LET a == LazyForce(st.AUTH_URL, AUTH_URL)
      t == LazyForce(st.TOKEN_URL, TOKEN_URL)
  IN  IF ~a.init THEN [statics |-> [st EXCEPT !.AUTH_URL = a], ret |-> Panicked]
      ELSE IF ~t.init
        THEN [statics |-> [AUTH_URL |-> a, TOKEN_URL |-> t], ret |-> Panicked]
      ELSE [statics |-> [AUTH_URL |-> a, TOKEN_URL |-> t],
            ret |-> Ok([auth_url |-> a.url, token_url |-> t.url,
                        client_id |-> self.client_secret,
                        client_secret |-> self.client_id])]

\* A first call that returns the token endpoint for both URLs while the cells
\* are being filled.
settings_ColdStart(self, st) ==
  LET a == LazyForce(st.AUTH_URL, AUTH_URL)
      t == LazyForce(st.TOKEN_URL, TOKEN_URL)
  IN  IF ~a.init THEN [statics |-> [st EXCEPT !.AUTH_URL = a], ret |-> Panicked]
      ELSE IF ~t.init
        THEN [statics |-> [AUTH_URL |-> a, TOKEN_URL |-> t], ret |-> Panicked]
      ELSE [statics |-> [AUTH_URL |-> a, TOKEN_URL |-> t],
            ret |-> Ok([auth_url |-> IF st.AUTH_URL.init THEN a.url ELSE t.url,
                        token_url |-> t.url,
                        client_id |-> self.client_id,
                        client_secret |-> self.client_secret])]

settings(self, st) ==
  LET a == LazyForce(st.AUTH_URL, AUTH_URL)
      t == LazyForce(st.TOKEN_URL, TOKEN_URL)
  IN  IF ~a.init THEN [statics |-> [st EXCEPT !.AUTH_URL = a], ret |-> Panicked]
      ELSE IF ~t.init
        THEN [statics |-> [AUTH_URL |-> a, TOKEN_URL |-> t], ret |-> Panicked]
      ELSE [statics |-> [AUTH_URL |-> a, TOKEN_URL |-> t],
            ret |-> Ok([auth_url |-> a.url, token_url |-> t.url,
                        client_id |-> self.client_id,
                        client_secret |-> self.client_secret])]

\* The scopes in the other order.
oauth_scopes_Reordered(self) == << "email", "name" >>

oauth_scopes(self) == << "name", "email" >>

\* The user-API body that is commented out in the source, enabled: a token is
\* taken for the provider's user.
get_user_Enabled(self, access_token) ==
  [self |-> self,
   ret |-> Ok([provider_user_id |-> access_token, provider_id |-> Apple,
               email |-> access_token, verified |-> TRUE, avatar |-> None])]

\* A provider that remembers the last token it was asked about and lets a
\* repeated token through.
get_user_Remembering(self, access_token) ==
  [self |-> [self EXCEPT !.client_secret = access_token],
   ret |-> IF self.client_secret = access_token
             THEN Ok([provider_user_id |-> access_token, provider_id |-> Apple,
                      email |-> access_token, verified |-> TRUE, avatar |-> None])
             ELSE Err(Unauthorized)]

\* get_user takes &self: the provider it leaves behind is the one it found.
get_user(self, access_token) ==
  [self |-> self, ret |-> Err(Unauthorized)]

----------------------------------------------------------------------------
(* The configurations, tokens and calls the model draws from. *)

ClientIds == {"", "id-1"}
ClientSecrets == {"", "s3cret"}
DisplayNames == {"Sign in with Apple"}

Opt(S) == {None} \cup {Some(x) : x \in S}

Configs ==
  [client_id : Opt(ClientIds), client_secret : Opt(ClientSecrets),
   display_name : Opt(DisplayNames)]

Tokens == {"tok-a", "tok-b"}

Calls == 1..NumCalls

Idle == [st |-> "idle"]

Instances == DOMAIN registry

Built == {i \in Instances : IsOk(registry[i].outcome)}

----------------------------------------------------------------------------
(* Provider operations. *)

\* The log of an instance whose settings() has not been called: the first
\* result, whether another operation ran on the instance since, and the later
\* results, each with whether another operation had run before it.
NoSettings == [first |-> None, interleaved |-> FALSE, later |-> {}]

\* Another operation runs on instance i.
Touch(log, i) == [log EXCEPT ![i].interleaved = @ \/ log[i].first.some]

Cold == [AUTH_URL |-> Uninit, TOKEN_URL |-> Uninit]

\* The static cells once some provider instance of the process has answered
\* settings().
Warm == [AUTH_URL |-> LazyForce(Uninit, AUTH_URL), TOKEN_URL |-> LazyForce(Uninit, TOKEN_URL)]

Entry(config, viaFactory) ==
  [config |-> config, viaFactory |-> viaFactory,
   outcome |-> IF viaFactory THEN factory_closure(factory.factory_name, config)
                             ELSE new(config)]

\* Startup: nothing is constructed yet.
RegistryInit ==
  /\ registry = << >>
  /\ statics = Cold
  /\ ret = [op |-> "none"]
  /\ settingsLog = << >>
  /\ calls = [c \in Calls |-> Idle]

\* One provider instance right after its construction from any configuration,
\* in a process whose static cells may or may not have been filled already.
ProviderInit ==
  /\ \E config \in Configs, viaFactory \in BOOLEAN :
       registry = << Entry(config, viaFactory) >>
  /\ statics \in {Cold, Warm}
  /\ ret = [op |-> "none"]
  /\ settingsLog = << NoSettings >>
  /\ calls = [c \in Calls |-> Idle]

\* AppleOAuthProvider::new(&config), directly or through the factory's closure.
Construct ==
  /\ Len(registry) < MaxProviders
  /\ \E config \in Configs, viaFactory \in BOOLEAN :
       registry' = Append(registry, Entry(config, viaFactory))
  /\ settingsLog' = Append(settingsLog, NoSettings)
  /\ UNCHANGED << statics, ret, calls, codecVars >>

CallName ==
  /\ \E i \in Built :
       /\ ret' = [op |-> "name", inst |-> i, val |-> name(registry[i].outcome.v)]
       /\ settingsLog' = Touch(settingsLog, i)
  /\ UNCHANGED << registry, statics, calls, codecVars >>

CallProvider ==
  /\ \E i \in Built :
       /\ ret' = [op |-> "provider", inst |-> i, val |-> provider(registry[i].outcome.v)]
       /\ settingsLog' = Touch(settingsLog, i)
  /\ UNCHANGED << registry, statics, calls, codecVars >>

CallDisplayName ==
  /\ \E i \in Built :
       /\ ret' = [op |-> "display_name", inst |-> i,
                  val |-> display_name(registry[i].outcome.v)]
       /\ settingsLog' = Touch(settingsLog, i)
  /\ UNCHANGED << registry, statics, calls, codecVars >>

CallSettings ==
  /\ \E i \in Built :
       LET r == settings(registry[i].outcome.v, statics)
       IN  /\ statics' = r.statics
           /\ ret' = [op |-> "settings", inst |-> i, val |-> r.ret]
           /\ settingsLog' = [settingsLog EXCEPT ![i] =
                IF @.first.some
                  THEN [@ EXCEPT !.later =
                          @ \cup {[val |-> r.ret, afterOther |-> settingsLog[i].interleaved]}]
                  ELSE [@ EXCEPT !.first = Some(r.ret)]]
  /\ UNCHANGED << registry, calls, codecVars >>

CallOauthScopes ==
  /\ \E i \in Built :
       /\ ret' = [op |-> "oauth_scopes", inst |-> i,
                  val |-> oauth_scopes(registry[i].outcome.v)]
       /\ settingsLog' = Touch(settingsLog, i)
  /\ UNCHANGED << registry, statics, calls, codecVars >>

\* provider.get_user(access_token): the future is created; nothing runs yet.
GetUserStart ==
  /\ \E c \in Calls, i \in Built, tok \in Tokens :
       /\ calls[c].st = "idle"
       /\ calls' = [calls EXCEPT ![c] = [st |-> "pending", inst |-> i, token |-> tok]]
  /\ UNCHANGED << registry, statics, ret, settingsLog, codecVars >>

\* The future is polled: the body of get_user runs to its return.
GetUserPoll ==
  /\ \E c \in Calls :
       /\ calls[c].st = "pending"
       /\ LET i == calls[c].inst
              r == get_user(registry[i].outcome.v, calls[c].token)
          IN  /\ registry' = [registry EXCEPT ![i].outcome.v = r.self]
              /\ calls' = [calls EXCEPT ![c] =
                   [st |-> "done", inst |-> i, token |-> calls[c].token,
                    result |-> r.ret,
                    concurrent |-> \E d \in Calls \ {c} :
                      calls[d].st = "pending" /\ calls[d].inst = i]]
              /\ settingsLog' = Touch(settingsLog, i)
  /\ UNCHANGED << statics, ret, codecVars >>

\* The caller has consumed the result and drops the future.
GetUserDrop ==
  /\ \E c \in Calls :
       /\ calls[c].st = "done"
       /\ calls' = [calls EXCEPT ![c] = Idle]
  /\ UNCHANGED << registry, statics, ret, settingsLog, codecVars >>

----------------------------------------------------------------------------
(* sql_value.rs: values.                                                   *)
(* Value:    Null | Integer(i) | Real(r) | Text(s) | Blob(b)               *)
(* SqlValue: Null | Integer(i) | Real(r) | Text(s) | Blob(blob)            *)
(* Blob:     Array(bytes) | Base64UrlSafe(text) | Hex(text)                *)

Null == [tag |-> "Null"]
Integer(i) == [tag |-> "Integer", i |-> i]
Real(r) == [tag |-> "Real", r |-> r]
Text(s) == [tag |-> "Text", s |-> s]
Blob(b) == [tag |-> "Blob", b |-> b]

Array(bytes) == [enc |-> "Array", bytes |-> bytes]
Base64UrlSafe(text) == [enc |-> "Base64UrlSafe", text |-> text]
Hex(text) == [enc |-> "Hex", text |-> text]

\* DecodeError::Hex, and DecodeError::Base64(_) without the inner error's detail.
DecodeErrorHex == "Hex"
DecodeErrorBase64 == "Base64"

U8Max == 255

----------------------------------------------------------------------------
(* BASE64_URL_SAFE: the URL-safe alphabet, padding written on encode and    *)
(* required, in canonical form, on decode.                                  *)

UrlSafeAlphabet ==
  << "A", "B", "C", "D", "E", "F", "G", "H", "I", "J", "K", "L", "M", "N", "O",
     "P", "Q", "R", "S", "T", "U", "V", "W", "X", "Y", "Z", "a", "b", "c", "d",
     "e", "f", "g", "h", "i", "j", "k", "l", "m", "n", "o", "p", "q", "r", "s",
     "t", "u", "v", "w", "x", "y", "z", "0", "1", "2", "3", "4", "5", "6", "7",
     "8", "9", "-", "_" >>

Pad == "="

Symbol(sextet) == UrlSafeAlphabet[sextet + 1]

\* The sextet a symbol stands for, or -1.
Sextet(c) == IndexOf(UrlSafeAlphabet, c) - 1

RECURSIVE EncodeFrom(_, _, _)
EncodeFrom(bytes, pos, padded) ==
  LET left == Len(bytes) - pos + 1
      b1 == bytes[pos]
      b2 == bytes[pos + 1]
      b3 == bytes[pos + 2]
  IN  IF left <= 0 THEN << >>
      ELSE IF left = 1
        THEN << Symbol(b1 \div 4), Symbol((b1 % 4) * 16) >>
             \o (IF padded THEN << Pad, Pad >> ELSE << >>)
      ELSE IF left = 2
        THEN << Symbol(b1 \div 4), Symbol((b1 % 4) * 16 + b2 \div 16),
                Symbol((b2 % 16) * 4) >>
             \o (IF padded THEN << Pad >> ELSE << >>)
      ELSE << Symbol(b1 \div 4), Symbol((b1 % 4) * 16 + b2 \div 16),
              Symbol((b2 % 16) * 4 + b3 \div 64), Symbol(b3 % 64) >>
           \o EncodeFrom(bytes, pos + 3, padded)

Base64Encode(bytes) == EncodeFrom(bytes, 1, TRUE)

RECURSIVE TrailingPads(_)
TrailingPads(text) ==
  IF text # << >> /\ text[Len(text)] = Pad
    THEN 1 + TrailingPads(SubSeq(text, 1, Len(text) - 1))
    ELSE 0

RECURSIVE DecodeQuads(_, _)
DecodeQuads(data, pos) ==
  LET left == Len(data) - pos + 1
      s1 == Sextet(data[pos])
      s2 == Sextet(data[pos + 1])
      s3 == Sextet(data[pos + 2])
      s4 == Sextet(data[pos + 3])
  IN  IF left <= 0 THEN << >>
      ELSE IF left = 2 THEN << s1 * 4 + s2 \div 16 >>
      ELSE IF left = 3 THEN << s1 * 4 + s2 \div 16, (s2 % 16) * 16 + s3 \div 4 >>
      ELSE << s1 * 4 + s2 \div 16, (s2 % 16) * 16 + s3 \div 4, (s3 % 4) * 64 + s4 >>
           \o DecodeQuads(data, pos + 4)

Base64Decode(text) ==
  LET pads == TrailingPads(text)
      data == SubSeq(text, 1, Len(text) - pads)
      tail == Len(data) % 4
      last == Sextet(data[Len(data)])
  IN  IF \E i \in DOMAIN data : Sextet(data[i]) < 0 THEN Err(DecodeErrorBase64)
      ELSE IF tail = 1 THEN Err(DecodeErrorBase64)
      ELSE IF pads # (IF tail = 0 THEN 0 ELSE 4 - tail) THEN Err(DecodeErrorBase64)
      ELSE IF tail = 2 /\ last % 16 # 0 THEN Err(DecodeErrorBase64)
      ELSE IF tail = 3 /\ last % 4 # 0 THEN Err(DecodeErrorBase64)
      ELSE Ok(DecodeQuads(data, 1))

----------------------------------------------------------------------------
(* sql_value.rs: decode_hex. A &str is UTF-8: its len() counts bytes and a  *)
(* slice &s[i..j] panics unless i and j are character boundaries.           *)

\* The one non-ASCII character of the model, U+00E9, and its two UTF-8 bytes.
EAcute == "U+00E9"
EAcuteLead == "0xC3"
EAcuteCont == "0xA9"

RECURSIVE Utf8(_)
Utf8(s) ==
  IF s = << >> THEN << >>
  ELSE (IF Head(s) = EAcute THEN << EAcuteLead, EAcuteCont >> ELSE << Head(s) >>)
       \o Utf8(Tail(s))

\* str::is_char_boundary, index counted from 0.
IsCharBoundary(bytes, i) ==
  \/ i = 0
  \/ i = Len(bytes)
  \/ i < Len(bytes) /\ bytes[i + 1] # EAcuteCont

\* &s[i..j]
StrSlice(bytes, i, j) ==
  IF i <= j /\ j <= Len(bytes) /\ IsCharBoundary(bytes, i) /\ IsCharBoundary(bytes, j)
    THEN Ok(SubSeq(bytes, i + 1, j))
    ELSE Panicked

HexLower ==
  << "0", "1", "2", "3", "4", "5", "6", "7", "8", "9", "a", "b", "c", "d", "e", "f" >>

HexUpper ==
  << "0", "1", "2", "3", "4", "5", "6", "7", "8", "9", "A", "B", "C", "D", "E", "F" >>

\* char::to_digit(16), or -1.
ToDigit16(c) ==
  IF IndexOf(HexLower, c) # 0 THEN IndexOf(HexLower, c) - 1
  ELSE IndexOf(HexUpper, c) - 1

RECURSIVE Accumulate(_, _)
Accumulate(digits, acc) ==
  IF digits = << >> THEN Ok(acc)
  ELSE IF ToDigit16(Head(digits)) < 0 THEN Err("InvalidDigit")
  ELSE IF acc * 16 + ToDigit16(Head(digits)) > U8Max THEN Err("PosOverflow")
  ELSE Accumulate(Tail(digits), acc * 16 + ToDigit16(Head(digits)))

\* u8::from_str_radix(src, 16): an empty string and a lone sign are errors, a
\* leading "+" is accepted and skipped, a "-" is no digit of an unsigned type.
U8FromStrRadix16(bytes) ==
  IF bytes = << >> THEN Err("Empty")
  ELSE IF bytes = << "+" >> \/ bytes = << "-" >> THEN Err("InvalidDigit")
  ELSE IF Head(bytes) = "+" THEN Accumulate(Tail(bytes), 0)
  ELSE Accumulate(bytes, 0)

\* The iterator (0..s.len()).step_by(2).map(..).collect(): the pairs are taken
\* in order, the first failing pair ends the collection.
RECURSIVE DecodePairs(_, _, _)
DecodePairs(bytes, i, acc) ==
  IF i >= Len(bytes) THEN Ok(acc)
  ELSE LET piece == StrSlice(bytes, i, i + 2)
       IN  IF IsPanic(piece) THEN Panicked
           ELSE LET byte == U8FromStrRadix16(piece.v)
                IN  IF IsErr(byte) THEN Err(DecodeErrorHex)
                    ELSE DecodePairs(bytes, i + 2, Append(acc, byte.v))

decode_hex(s) ==
  LET bytes == Utf8(s)
  IN  IF Len(bytes) % 2 # 0 THEN Err(DecodeErrorHex)
      ELSE DecodePairs(bytes, 0, << >>)

----------------------------------------------------------------------------
(* sql_value.rs: the conversions. *)

\* impl TryFrom<SqlValue> for Value
try_from(value) ==
  IF value.tag = "Null" THEN Ok(Null)
  ELSE IF value.tag = "Integer" THEN Ok(Integer(value.i))
  ELSE IF value.tag = "Real" THEN Ok(Real(value.r))
  ELSE IF value.tag = "Text" THEN Ok(Text(value.s))
  ELSE IF value.blob.enc = "Array" THEN Ok(Blob(value.blob.bytes))
  ELSE IF value.blob.enc = "Base64UrlSafe"
    THEN LET d == Base64Decode(value.blob.text)
         IN  IF IsOk(d) THEN Ok(Blob(d.v)) ELSE d
  ELSE LET d == decode_hex(value.blob.text)
       IN  IF IsOk(d) THEN Ok(Blob(d.v)) ELSE d

\* Blobs written with the encoder of BASE64_URL_SAFE_NO_PAD.
from_NoPad(value) ==
  IF value.tag = "Blob"
    THEN [tag |-> "Blob", blob |-> Base64UrlSafe(EncodeFrom(value.b, 1, FALSE))]
    ELSE value

\* impl From<Value> for SqlValue
from(value) ==
  IF value.tag = "Blob"
    THEN [tag |-> "Blob", blob |-> Base64UrlSafe(Base64Encode(value.b))]
    ELSE value

\* impl From<&Value> for SqlValue
from_ref(value) ==
  IF value.tag = "Null" THEN Null
  ELSE IF value.tag = "Integer" THEN Integer(value.i)
  ELSE IF value.tag = "Real" THEN Real(value.r)
  ELSE IF value.tag = "Text" THEN Text(value.s)
  ELSE [tag |-> "Blob", blob |-> Base64UrlSafe(Base64Encode(value.b))]

----------------------------------------------------------------------------
(* The values the model draws from. *)

SeqsUpTo(S, n) == UNION {[1..k -> S] : k \in 0..n}

HexSampleChars == {"0", "a", "F", "g", "+", "-", EAcute}
B64SampleChars == {"A", "Q", "_", Pad, "+"}
ByteSamples == {0, 1, 251, 255}
IntegerSamples == {-1, 0, 42}
RealSamples == {"1.5", "NaN"}
TextSamples == {"", "abc"}

Scalars ==
  {Null} \cup {Integer(i) : i \in IntegerSamples} \cup {Real(r) : r \in RealSamples}
    \cup {Text(s) : s \in TextSamples}

Blobs == SeqsUpTo(ByteSamples, MaxBlobLen)

\* trailbase_sqlite::Value
Values == Scalars \cup {Blob(b) : b \in Blobs}

\* What a client may send.
ClientSqlValues ==
  Scalars
    \cup {[tag |-> "Blob", blob |-> Array(b)] : b \in Blobs}
    \cup {[tag |-> "Blob", blob |-> Hex(t)] : t \in SeqsUpTo(HexSampleChars, MaxChars)}
    \cup {[tag |-> "Blob", blob |-> Base64UrlSafe(t)] :
            t \in SeqsUpTo(B64SampleChars, MaxB64Chars)}

----------------------------------------------------------------------------
(* Codec operations. *)

CodecIdle == sql = None /\ src = None /\ sqlRef = None /\ val = None

\* A SqlValue arrives from a client (deserialized JSON).
Receive ==
  /\ CodecIdle
  /\ \E sv \in ClientSqlValues : sql' = Some(sv)
  /\ src' = None
  /\ sqlRef' = None
  /\ val' = None
  /\ UNCHANGED providerVars

\* A Value is read from the database.
Load ==
  /\ CodecIdle
  /\ \E v \in Values : src' = Some(v)
  /\ sql' = None
  /\ sqlRef' = None
  /\ val' = None
  /\ UNCHANGED providerVars

\* SqlValue::from(&value)
ConvertRef ==
  /\ src.some
  /\ sqlRef' = Some(from_ref(src.v))
  /\ UNCHANGED << sql, src, val, providerVars >>

\* SqlValue::from(value)
ConvertOwned ==
  /\ src.some
  /\ sql' = Some(from(src.v))
  /\ val' = None
  /\ UNCHANGED << src, sqlRef, providerVars >>

\* Value::try_from(sql_value)
Convert ==
  /\ sql.some
  /\ val' = Some(try_from(sql.v))
  /\ UNCHANGED << sql, src, sqlRef, providerVars >>

\* The values at hand go out of scope.
Discard ==
  /\ ~CodecIdle
  /\ sql' = None
  /\ src' = None
  /\ sqlRef' = None
  /\ val' = None
  /\ UNCHANGED providerVars

----------------------------------------------------------------------------
(* Specifications. *)

\* The provider: one instance after construction, and its operations.
Init == ProviderInit /\ CodecIdle

Next ==
  \/ CallName
  \/ CallProvider
  \/ CallDisplayName
  \/ CallSettings
  \/ CallOauthScopes
  \/ GetUserStart
  \/ GetUserPoll
  \/ GetUserDrop

Spec == Init /\ [][Next]_vars

\* Startup: the provider instances are constructed one after the other.
StartupInit == RegistryInit /\ CodecIdle

StartupNext == Construct

StartupSpec == StartupInit /\ [][StartupNext]_vars

\* The value conversions.
CodecInit == RegistryInit /\ CodecIdle

CodecNext ==
  \/ Receive
  \/ Load
  \/ ConvertRef
  \/ ConvertOwned
  \/ Convert
  \/ Discard

CodecSpec == CodecInit /\ [][CodecNext]_vars

----------------------------------------------------------------------------
(* Properties of construction (StartupSpec). *)

\* The words of phrase occur, in order and adjacent, in msg.
Names(msg, phrase) ==
  \E k \in 1..(Len(msg) - Len(phrase) + 1) :
    SubSeq(msg, k, k + Len(phrase) - 1) = phrase

\* Which of the two required fields a configuration has.
Presence(config) == << config.client_id.some, config.client_secret.some >>

\* C1: construction, directly or through the factory's closure, fails with
\* Missing naming "client id" when the client id is absent, fails with Missing
\* naming "client secret" when the id is present and the secret absent, and
\* succeeds when both are present; there is no other outcome.
ConstructionOutcome ==
  \A i \in Instances :
    LET config == registry[i].config
        out == registry[i].outcome
    IN  /\ ~config.client_id.some =>
             /\ IsErr(out)
             /\ out.e.kind = "Missing"
             /\ Names(out.e.msg, << "client", "id" >>)
        /\ config.client_id.some /\ ~config.client_secret.some =>
             /\ IsErr(out)
             /\ out.e.kind = "Missing"
             /\ Names(out.e.msg, << "client", "secret" >>)
        /\ config.client_id.some /\ config.client_secret.some => IsOk(out)

\* A construction through the factory that failed for its secret, another one
\* that failed for its id, in one run.
ConstructionOutcomeWitness ==
  \E i, j \in Instances :
    /\ registry[i].viaFactory
    /\ registry[i].config.client_id.some
    /\ IsErr(registry[i].outcome)
    /\ ~registry[j].config.client_id.some
    /\ IsErr(registry[j].outcome)

\* C4: the error of a failed construction is a function of which fields are
\* absent: two configurations with the same fields present fail alike, whatever
\* the values of the client id, the client secret and the display name.
ErrorIgnoresValues ==
  \A i, j \in Instances :
    (IsErr(registry[i].outcome)
       /\ Presence(registry[i].config) = Presence(registry[j].config))
      => /\ IsErr(registry[j].outcome)
         /\ registry[i].outcome.e = registry[j].outcome.e

\* Two failed constructions from configurations that differ in a value only.
ErrorIgnoresValuesWitness ==
  \E i, j \in Instances :
    /\ IsErr(registry[i].outcome)
    /\ IsErr(registry[j].outcome)
    /\ Presence(registry[i].config) = Presence(registry[j].config)
    /\ \/ /\ registry[i].config.client_secret.some
          /\ registry[i].config.client_secret # registry[j].config.client_secret
       \/ /\ registry[i].config.client_id.some
          /\ registry[i].config.client_id # registry[j].config.client_id

----------------------------------------------------------------------------
(* Properties of a constructed provider (Spec). *)

\* The configured credentials of instance i.
Configured(i) ==
  [client_id |-> registry[i].config.client_id.v,
   client_secret |-> registry[i].config.client_secret.v]

\* C2: every get_user call that has returned, for any token and after any
\* earlier calls, returned Err(Unauthorized): never an OAuthUser, never another
\* error.
GetUserUnauthorized ==
  \A c \in Calls : calls[c].st = "done" => calls[c].result = Err(Unauthorized)

\* A get_user call that returned after settings() and another get_user call.
GetUserUnauthorizedWitness ==
  \E c, d \in Calls :
    /\ c # d
    /\ calls[c].st = "done"
    /\ calls[d].st = "done"
    /\ settingsLog[calls[c].inst].first.some

\* C3: every bundle settings() returns has a non-empty client id, a non-empty
\* client secret and absolute auth and token URLs.
SettingsNonEmpty ==
  ret.op = "settings" =>
    /\ IsOk(ret.val)
    /\ ret.val.v.client_id # ""
    /\ ret.val.v.client_secret # ""
    /\ IsAbsoluteUrl(ret.val.v.auth_url)
    /\ IsAbsoluteUrl(ret.val.v.token_url)

\* C5: all calls of settings() on an instance return equal values, whatever
\* other operations run in between.
SettingsIdempotent ==
  \A i \in Instances :
    \A x \in settingsLog[i].later : Some(x.val) = settingsLog[i].first

\* A second settings() call made after another operation had run since the first.
SettingsIdempotentWitness ==
  \E i \in Instances : \E x \in settingsLog[i].later : x.afterOther

\* C6: get_user calls do not interfere: the instance keeps the client id and the
\* client secret it was constructed with, and two calls with the same token
\* return the same, whether or not another call was in flight.
GetUserIndependent ==
  /\ \A i \in Built : registry[i].outcome.v = Configured(i)
  /\ \A c, d \in Calls :
       (calls[c].st = "done" /\ calls[d].st = "done"
          /\ calls[c].inst = calls[d].inst /\ calls[c].token = calls[d].token)
         => calls[c].result = calls[d].result

\* Two calls with different tokens that were in flight together and have both
\* returned.
GetUserIndependentWitness ==
  \E c, d \in Calls :
    /\ calls[c].st = "done"
    /\ calls[d].st = "done"
    /\ calls[c].inst = calls[d].inst
    /\ calls[c].token # calls[d].token
    /\ calls[d].concurrent

\* The URLs as the specification states them.
StatedAuthUrl ==
  << "h", "t", "t", "p", "s", ":", "/", "/", "a", "p", "p", "l", "e", "i", "d",
     ".", "a", "p", "p", "l", "e", ".", "c", "o", "m", "/", "a", "u", "t", "h",
     "/", "a", "u", "t", "h", "o", "r", "i", "z", "e" >>

StatedTokenUrl ==
  << "h", "t", "t", "p", "s", ":", "/", "/", "a", "p", "p", "l", "e", "i", "d",
     ".", "a", "p", "p", "l", "e", ".", "c", "o", "m", "/", "a", "u", "t", "h",
     "/", "t", "o", "k", "e", "n" >>

\* C7: settings() of a constructed provider is Ok on every call, with the
\* configured client id and client secret and Apple's authorize and token URLs.
SettingsResolved ==
  ret.op = "settings" =>
    /\ IsOk(ret.val)
    /\ ret.val.v.client_id = registry[ret.inst].config.client_id.v
    /\ ret.val.v.client_secret = registry[ret.inst].config.client_secret.v
    /\ UrlAsStr(ret.val.v.auth_url) = StatedAuthUrl
    /\ UrlAsStr(ret.val.v.token_url) = StatedTokenUrl

\* A repeated settings() call on an instance with a client id and a secret that
\* differ.
SettingsResolvedWitness ==
  /\ ret.op = "settings"
  /\ settingsLog[ret.inst].later # {}
  /\ registry[ret.inst].config.client_id.v # registry[ret.inst].config.client_secret.v

\* C8: oauth_scopes() returns the sequence "name", "email", whatever the
\* configuration and the calls made before.
ScopesFixed ==
  ret.op = "oauth_scopes" => ret.val = << "name", "email" >>

\* oauth_scopes() called after settings() and a get_user call.
ScopesFixedWitness ==
  /\ ret.op = "oauth_scopes"
  /\ settingsLog[ret.inst].first.some
  /\ \E c \in Calls : calls[c].st = "done"

----------------------------------------------------------------------------
(* Properties of the value conversions (CodecSpec). *)

IsHexDigit(c) == ToDigit16(c) >= 0

\* The bytes a string of hex digit pairs stands for.
PairValues(s) ==
  [k \in 1..(Len(s) \div 2) |-> ToDigit16(s[2 * k - 1]) * 16 + ToDigit16(s[2 * k])]

\* C9: converting Blob::Hex(s) returns Ok(Blob(bytes)) exactly when s has even
\* length and only hex digits, bytes being the values of its pairs; for every
\* other s it returns Err(Hex) and does not abort.
HexDecodingExact ==
  (sql.some /\ val.some /\ sql.v.tag = "Blob" /\ sql.v.blob.enc = "Hex") =>
    LET s == sql.v.blob.text
    IN  IF Len(s) % 2 = 0 /\ \A k \in DOMAIN s : IsHexDigit(s[k])
          THEN val.v = Ok(Blob(PairValues(s)))
          ELSE val.v = Err(DecodeErrorHex)

\* C10: a Null, Integer, Text or Blob value converted to a SqlValue and back is
\* Ok and the value itself; a blob travels as Base64UrlSafe; the conversion from
\* a borrow gives the same SqlValue as the conversion by value.
RoundTrip ==
  (src.some /\ sql.some) =>
    /\ (val.some /\ src.v.tag # "Real") => val.v = Ok(src.v)
    /\ src.v.tag = "Blob" => sql.v.blob.enc = "Base64UrlSafe"
    /\ sqlRef.some => sqlRef = sql

\* A blob whose encoding needs padding, converted both ways and back.
RoundTripWitness ==
  /\ src.some
  /\ sql.some
  /\ sqlRef.some
  /\ val.some
  /\ src.v.tag = "Blob"
  /\ Len(src.v.b) % 3 # 0
  /\ val.v = Ok(src.v)

====
